---- MODULE Spec2Model ----
(***************************************************************************)
(* Graph version and activation lifecycle of the backend router            *)
(* (autogpt_platform/backend/backend/server/routers/v1.py): the handlers   *)
(* do_create_graph, update_graph and set_graph_active_version acting on    *)
(* the versions of one graph_id, interleaved at their await points (store  *)
(* calls and lifecycle hooks).  Further sections model BaseAgent.run/exit  *)
(* and its loop hooks (autogpts/autogpt/autogpt/core/agents/base/main.py), *)
(* ChatSequence.insert (autogpt/llm/base.py) and the output stream of      *)
(* TwitterGetQuoteTweetsBlock.run (blocks/twitter/tweets/quote.py), each   *)
(* under a specification of its own.                                       *)
(***************************************************************************)
EXTENDS Integers, Sequences, FiniteSets, TLC

\* ---------------------------------------------------------------- bounds
MaxVersion == 3      \* highest version number an update may allocate
MaxOps == 2          \* number of requests issued in one behaviour

Procs == {1, 2}      \* concurrent request handlers (one per HTTP request)
Versions == 1..MaxVersion
None == 0            \* Python None for an optional version

VARIABLES
    store,          \* graph_db: version -> persisted Graph row of the graph_id
    pc,             \* position of each handler (its next await point)
    op,             \* handler each process is in ("none" when idle)
    loc,            \* handler locals
    result,         \* outcome of the handler: "running", "ok" or the error
    trace,          \* store writes and hook calls of the handler, in order
    activations,    \* version -> completed on_graph_activate calls
    deactivations,  \* version -> completed on_graph_deactivate calls
    created,        \* a create request has been issued for this graph_id
    nops,           \* requests issued so far
    concurrent,     \* FALSE: requests are issued one after the other
    overlap,        \* the requests the two processes are handling overlapped
    failed,         \* some request so far ended in an error
    store0          \* sequential runs: the store when the request was issued

vars == <<store, pc, op, loc, result, trace, activations, deactivations,
          created, nops, concurrent, overlap, failed, store0>>

\* BaseAgent (core/agents/base/main.py)
VARIABLES
    is_running,     \* self._loop._is_running
    apc             \* position of each caller of BaseAgent.run

runvars == <<is_running, apc>>

Tasks == {1, 2, 3}   \* asyncio tasks that may call agent.run or agent.exit

\* A constructed agent: its loop is not running and nobody has called run
RunInit ==
    /\ is_running = FALSE
    /\ apc = [t \in Tasks |-> "idle"]

VARIABLES
    loophooks,      \* self._loop._loophooks: name -> key -> hook
    loophooks0,     \* _loophooks as the latest add_hook / remove_hook found it
    hook_call       \* the latest add_hook / remove_hook call and its result

hookvars == <<loophooks, loophooks0, hook_call>>

HookNames == {"begin_run", "end_run"}      \* the names _loophooks has entries for
HookFns == {"f", "g"}                      \* what else a hook dict holds
Hooks == [name : HookNames, fn : HookFns]  \* BaseLoopHook dicts
NoHook == [name |-> "", fn |-> ""]         \* no entry under a key

\* Dictionary keys and hook ids: uuid.UUID objects and strings. A UUID and a
\* str are never equal (and hash differently), whatever their digits.
Hexes == {"u0", "u1", "u2"}
Ids == [type : {"UUID", "str"}, hex : Hexes]

\* str(hook_id)
str(id) == [type |-> "str", hex |-> id.hex]

\* line 217: the default of hook_id, uuid.uuid4() evaluated when the def
\* statement runs; the ids callers pass are other UUIDs (hook_id: uuid.UUID)
DefaultHookId == [type |-> "UUID", hex |-> "u0"]
ExplicitIds == {id \in Ids : id.type = "UUID" /\ id.hex # DefaultHookId.hex}

NoCall == [op |-> "none", name |-> "", hook_id |-> DefaultHookId,
           fn |-> "", ret |-> "None"]

\* An agent whose loop has no hook registered under any of its names
HooksInit ==
    /\ loophooks = [n \in HookNames |-> [k \in Ids |-> NoHook]]
    /\ loophooks0 = loophooks
    /\ hook_call = NoCall

\* TwitterGetQuoteTweetsBlock (blocks/twitter/tweets/quote.py)
VARIABLES
    qpc,            \* position of the generator run(): its next statement
    qnext,          \* which of the if-statements of lines 224-235 is next
    qtest,          \* get_quote_tweets is replaced by the block's test_mock
    lookup,         \* what the get_quote_tweets call returned or raised
    outputs         \* the (name, value) pairs run() has yielded, in order

quotevars == <<qpc, qnext, qtest, lookup, outputs>>

EmptyDict == <<>>    \* {}
NoToken == ""        \* next_token None or "": falsy, never yielded

\* The tuple get_quote_tweets returns, or the exception it raises
Returned(ids, texts, data, included, meta, next_token) ==
    [raised |-> "", ids |-> ids, texts |-> texts, data |-> data,
     included |-> included, meta |-> meta, next_token |-> next_token]

Raised(e) ==
    [raised |-> e, ids |-> <<>>, texts |-> <<>>, data |-> <<>>,
     included |-> EmptyDict, meta |-> EmptyDict, next_token |-> NoToken]

\* A block whose run() has not been called
QuoteInit ==
    /\ qpc = "idle"
    /\ qnext = 1
    /\ qtest = FALSE
    /\ lookup = Raised("")
    /\ outputs = <<>>

\* ChatSequence (autogpt/llm/base.py)
VARIABLES
    messages,       \* self.messages
    messages0,      \* self.messages as the latest call found it
    chat_call       \* the latest call on the sequence and its arguments

chatvars == <<messages, messages0, chat_call>>

MaxMessages == 4     \* longest chat sequence built
MaxInsert == 2       \* most messages passed to one insert call

Messages == {"m1", "m2", "m3"}

\* ChatSequence(model): messages defaults to an empty list (line 87)
ChatInit ==
    /\ messages = <<>>
    /\ messages0 = <<>>
    /\ chat_call = [op |-> "none", index |-> 0, messages |-> <<>>]

\* The state of the other components, which the graph routes leave alone
others == <<runvars, hookvars, quotevars, chatvars>>

\* What BaseAgent.run and BaseAgent.exit leave alone
notrun == <<vars, hookvars, quotevars, chatvars>>

\* What add_hook and remove_hook leave alone
nothooks == <<vars, runvars, quotevars, chatvars>>

\* What TwitterGetQuoteTweetsBlock.run leaves alone
notquote == <<vars, runvars, hookvars, chatvars>>

\* What the ChatSequence methods leave alone
notchat == <<vars, runvars, hookvars, quotevars>>

\* ------------------------------------------------------------ the store
NoGraph == [present |-> FALSE, is_active |-> FALSE, is_template |-> FALSE]

Graph(active, template) ==
    [present |-> TRUE, is_active |-> active, is_template |-> template]

Present(s) == {v \in Versions : s[v].present}

ActiveVersions(s) == {v \in Versions : s[v].present /\ s[v].is_active}

Max(S) == CHOOSE m \in S : \A x \in S : x <= m

\* graph_db.get_graph_all_versions: the versions in the store's order
get_graph_all_versions(s) ==
    {f \in [1..Cardinality(Present(s)) -> Present(s)] :
        \A i, j \in DOMAIN f : i # j => f[i] # f[j]}

\* graph_db.get_graph(graph_id, version): None when absent
get_graph(s, v) == IF v \in Present(s) THEN v ELSE None

\* graph_db.get_graph(graph_id): the currently active version, or None
get_active_graph(s) ==
    IF ActiveVersions(s) = {} THEN {None} ELSE ActiveVersions(s)

\* graph_db.create_graph succeeds unless (graph_id, version) is taken
create_graph_ok(s, v) == ~s[v].present

create_graph(s, v, active, template) ==
    [s EXCEPT ![v] = Graph(active, template)]

\* graph_db.set_graph_active_version: the one atomic pointer update. The call
\* may instead raise ConflictError and leave the store as it is; the handlers
\* hand it no expected value, so whether it does is an input (store_ok) of the
\* steps that call it.
set_active(s, v) ==
    [w \in Versions |->
        IF s[w].present THEN [s[w] EXCEPT !.is_active = (w = v)] ELSE s[w]]

\* ----------------------------------------------------------- bookkeeping
Event(call, v, ok) == [call |-> call, version |-> v, ok |-> ok]

Other(p) == CHOOSE q \in Procs : q # p

Running(p) == pc[p] \notin {"idle", "done"}

NoLoc == [version |-> None, current |-> None, is_template |-> FALSE]

\* A request may be issued by an idle process
CanStart(p) ==
    /\ pc[p] = "idle"
    /\ nops < MaxOps
    /\ concurrent \/ p = 1

\* The request enters its handler
Begin(p, name) ==
    /\ op' = [op EXCEPT ![p] = name]
    /\ trace' = [trace EXCEPT ![p] = <<>>]
    /\ nops' = nops + 1
    /\ overlap' = Running(Other(p))
    /\ store0' = IF concurrent THEN store0 ELSE store

\* The handler raises or returns: the response is on its way to the caller
Finish(p, res) ==
    /\ pc' = [pc EXCEPT ![p] = "done"]
    /\ result' = [result EXCEPT ![p] = res]
    /\ failed' = (failed \/ res # "ok")

\* The handler proceeds to its next await point
Goto(p, label) ==
    /\ pc' = [pc EXCEPT ![p] = label]
    /\ result' = [result EXCEPT ![p] = "running"]
    /\ UNCHANGED failed

Log(p, e) == trace' = [trace EXCEPT ![p] = Append(@, e)]

\* The persisted versions of the graph_id when the server starts: none, or
\* what a successful create followed by k - 1 successful updates leaves
\* (versions 1..k; of a non-template graph the latest one is active)
InitStore(k, template) ==
    [v \in Versions |->
        IF v <= k THEN Graph(~template /\ v = k, template) ELSE NoGraph]

\* No graph is stored and no request reaches the graph routes
GraphsOff ==
    /\ store = InitStore(0, FALSE)
    /\ store0 = store
    /\ activations = [v \in Versions |-> 0]
    /\ deactivations = [v \in Versions |-> 0]
    /\ created = FALSE
    /\ pc = [p \in Procs |-> "idle"]
    /\ op = [p \in Procs |-> "none"]
    /\ loc = [p \in Procs |-> NoLoc]
    /\ result = [p \in Procs |-> "none"]
    /\ trace = [p \in Procs |-> <<>>]
    /\ nops = 0
    /\ concurrent = FALSE
    /\ overlap = FALSE
    /\ failed = FALSE

Init ==
    /\ \E k \in 0..MaxVersion, template \in BOOLEAN :
         /\ store = InitStore(k, template)
         /\ store0 = store
         /\ activations = [v \in Versions |->
                IF v <= k /\ (~template \/ v = 1) THEN 1 ELSE 0]
         /\ deactivations = [v \in Versions |->
                IF v < k /\ ~template THEN 1 ELSE 0]
         /\ created = (k > 0)
    /\ pc = [p \in Procs |-> "idle"]
    /\ op = [p \in Procs |-> "none"]
    /\ loc = [p \in Procs |-> NoLoc]
    /\ result = [p \in Procs |-> "none"]
    /\ trace = [p \in Procs |-> <<>>]
    /\ nops = 0
    /\ concurrent \in BOOLEAN
    /\ overlap = FALSE
    /\ failed = FALSE
    /\ RunInit
    /\ HooksInit
    /\ QuoteInit
    /\ ChatInit

\* The response reaches the caller and the handler's frame is gone; the
\* process can take the next request
Return(p) ==
    /\ pc[p] = "done"
    /\ pc' = [pc EXCEPT ![p] = "idle"]
    /\ op' = [op EXCEPT ![p] = "none"]
    /\ loc' = [loc EXCEPT ![p] = NoLoc]
    /\ result' = [result EXCEPT ![p] = "none"]
    /\ trace' = [trace EXCEPT ![p] = <<>>]
    /\ overlap' = FALSE
    /\ UNCHANGED <<store, activations, deactivations, created, nops,
                   concurrent, failed, store0>>
    /\ UNCHANGED others

\* on_graph_activate(graph, get_credentials) returned
Activated(v) ==
    /\ activations' = [activations EXCEPT ![v] = @ + 1]
    /\ UNCHANGED deactivations

\* on_graph_deactivate(graph, get_credentials) returned
Deactivated(v) ==
    /\ deactivations' = [deactivations EXCEPT ![v] = @ + 1]
    /\ UNCHANGED activations

\* ------------------------------------------------------ do_create_graph
CreateSources == {"graph", "template", "missing_template", "neither"}

\* lines 196-218: build the graph from the request, or reject the request.
\* reassign_ids(reassign_graph_id=True) gives the graph a fresh graph_id, of
\* which it is version 1.
CreateStart(p, source, is_template) ==
    /\ CanStart(p)
    /\ ~created
    /\ Begin(p, "create")
    /\ created' = TRUE
    /\ IF source \in {"graph", "template"}
       THEN /\ loc' = [loc EXCEPT ![p] = [version |-> 1, current |-> None,
                                          is_template |-> is_template]]
            /\ Goto(p, "c_create")
       ELSE /\ loc' = [loc EXCEPT ![p] = NoLoc]
            /\ Finish(p, IF source = "missing_template"
                         THEN "400 Template not found"      \* lines 206-209
                         ELSE "400")                        \* lines 211-214
    /\ UNCHANGED <<store, activations, deactivations, concurrent>>
    /\ UNCHANGED others

\* line 220: graph = await graph_db.create_graph(graph)
CreateStore(p) ==
    /\ pc[p] = "c_create"
    /\ IF create_graph_ok(store, loc[p].version)
       THEN /\ store' = create_graph(store, loc[p].version,
                                     ~loc[p].is_template, loc[p].is_template)
            /\ Log(p, Event("create_graph", loc[p].version, TRUE))
            /\ Goto(p, "c_activate")
       ELSE /\ Log(p, Event("create_graph", loc[p].version, FALSE))
            /\ Finish(p, "StoreError")
            /\ UNCHANGED store
    /\ UNCHANGED <<op, loc, activations, deactivations, created, nops,
                   concurrent, overlap, store0>>
    /\ UNCHANGED others

\* lines 221-225: graph = await on_graph_activate(graph, ...); return graph
CreateActivate(p, hook_ok) ==
    /\ pc[p] = "c_activate"
    /\ Log(p, Event("on_graph_activate", loc[p].version, hook_ok))
    /\ IF hook_ok
       THEN Activated(loc[p].version) /\ Finish(p, "ok")
       ELSE UNCHANGED <<activations, deactivations>>
            /\ Finish(p, "ActivationError")
    /\ UNCHANGED <<store, op, loc, created, nops, concurrent, overlap, store0>>
    /\ UNCHANGED others

\* --------------------------------------------------------- update_graph
\* line 264: next((v for v in existing_versions if v.is_active), None)
FirstActive(s, existing) ==
    LET idx == {i \in DOMAIN existing : s[existing[i]].is_active}
    IN  IF idx = {} THEN None ELSE existing[Max({0 - i : i \in idx}) * (0 - 1)]

\* Mutant: the new version number is counted on from the active version
NewVersion_FromActive(s) ==
    IF ActiveVersions(s) = {} THEN Max(Present(s)) + 1
    ELSE Max(ActiveVersions(s)) + 1

\* lines 258-259: graph.version = max(g.version for g in existing_versions) + 1
NewVersion(s) == Max(Present(s)) + 1

\* Mutant: is_template of the request is not compared with the latest version
TemplateChanged_Ignored(s, is_template) == FALSE

\* lines 261-265: latest_version_graph.is_template != graph.is_template
TemplateChanged(s, is_template) ==
    s[Max(Present(s))].is_template # is_template

\* Mutant: an update of a graph_id without versions creates its version 1
UpdateStart_Upsert(p, id_matches, is_template) ==
    /\ CanStart(p)
    /\ Begin(p, "update")
    /\ IF ~id_matches
       THEN loc' = [loc EXCEPT ![p] = NoLoc] /\ Finish(p, "400")
       ELSE IF Present(store) = {}
       THEN /\ loc' = [loc EXCEPT ![p] = [version |-> 1, current |-> None,
                                          is_template |-> is_template]]
            /\ Goto(p, "u_create")
       ELSE /\ NewVersion(store) <= MaxVersion
            /\ \E existing \in get_graph_all_versions(store) :
                 loc' = [loc EXCEPT ![p] =
                           [version |-> NewVersion(store),
                            current |-> FirstActive(store, existing),
                            is_template |-> is_template]]
            /\ IF TemplateChanged(store, is_template)
               THEN Finish(p, "400")
               ELSE Goto(p, "u_create")
    /\ UNCHANGED <<store, activations, deactivations, created, concurrent>>
    /\ UNCHANGED others

\* lines 251-271: sanity check, load the versions, determine the new one
UpdateStart(p, id_matches, is_template) ==
    /\ CanStart(p)
    /\ Begin(p, "update")
    /\ IF ~id_matches
       THEN loc' = [loc EXCEPT ![p] = NoLoc] /\ Finish(p, "400")
       ELSE IF Present(store) = {}
       THEN loc' = [loc EXCEPT ![p] = NoLoc] /\ Finish(p, "404")
       ELSE /\ NewVersion(store) <= MaxVersion
            /\ \E existing \in get_graph_all_versions(store) :
                 loc' = [loc EXCEPT ![p] =
                           [version |-> NewVersion(store),
                            current |-> FirstActive(store, existing),
                            is_template |-> is_template]]
            /\ IF TemplateChanged(store, is_template)
               THEN Finish(p, "400")
               ELSE Goto(p, "u_create")
    /\ UNCHANGED <<store, activations, deactivations, created, concurrent>>
    /\ UNCHANGED others

\* Mutant: the new version of a template is made active like any other
UpdateCreate_TemplateActive(p) ==
    /\ pc[p] = "u_create"
    /\ IF create_graph_ok(store, loc[p].version)
       THEN /\ store' = create_graph(store, loc[p].version,
                                     TRUE, loc[p].is_template)
            /\ Log(p, Event("create_graph", loc[p].version, TRUE))
            /\ Goto(p, "u_activate")
       ELSE /\ Log(p, Event("create_graph", loc[p].version, FALSE))
            /\ Finish(p, "StoreError")
            /\ UNCHANGED store
    /\ UNCHANGED <<op, loc, activations, deactivations, created, nops,
                   concurrent, overlap, store0>>
    /\ UNCHANGED others

\* Mutant: the pointer is moved to the new version without activating it
UpdateCreate_PointerFirst(p) ==
    /\ pc[p] = "u_create"
    /\ IF create_graph_ok(store, loc[p].version)
       THEN /\ store' = create_graph(store, loc[p].version,
                                     ~loc[p].is_template, loc[p].is_template)
            /\ Log(p, Event("create_graph", loc[p].version, TRUE))
            /\ IF ~loc[p].is_template
               THEN Goto(p, "u_set_active")
               ELSE Finish(p, "ok")
       ELSE /\ Log(p, Event("create_graph", loc[p].version, FALSE))
            /\ Finish(p, "StoreError")
            /\ UNCHANGED store
    /\ UNCHANGED <<op, loc, activations, deactivations, created, nops,
                   concurrent, overlap, store0>>
    /\ UNCHANGED others

\* Mutant: the new version is written over whatever row has its number
UpdateCreate_Overwrite(p) ==
    /\ pc[p] = "u_create"
    /\ store' = create_graph(store, loc[p].version,
                             ~loc[p].is_template, loc[p].is_template)
    /\ Log(p, Event("create_graph", loc[p].version, TRUE))
    /\ IF ~loc[p].is_template
       THEN Goto(p, "u_activate")
       ELSE Finish(p, "ok")
    /\ UNCHANGED <<op, loc, activations, deactivations, created, nops,
                   concurrent, overlap, store0>>
    /\ UNCHANGED others

\* Mutant: the update is written into the latest existing version
UpdateCreate_InPlace(p) ==
    /\ pc[p] = "u_create"
    /\ store' = create_graph(store, loc[p].version - 1,
                             ~loc[p].is_template, loc[p].is_template)
    /\ Log(p, Event("create_graph", loc[p].version - 1, TRUE))
    /\ IF ~loc[p].is_template
       THEN Goto(p, "u_activate")
       ELSE Finish(p, "ok")
    /\ UNCHANGED <<op, loc, activations, deactivations, created, nops,
                   concurrent, overlap, store0>>
    /\ UNCHANGED others

\* lines 273-275: new_graph_version = await graph_db.create_graph(graph)
UpdateCreate(p) ==
    /\ pc[p] = "u_create"
    /\ IF create_graph_ok(store, loc[p].version)
       THEN /\ store' = create_graph(store, loc[p].version,
                                     ~loc[p].is_template, loc[p].is_template)
            /\ Log(p, Event("create_graph", loc[p].version, TRUE))
            /\ IF ~loc[p].is_template
               THEN Goto(p, "u_activate")
               ELSE Finish(p, "ok")
       ELSE /\ Log(p, Event("create_graph", loc[p].version, FALSE))
            /\ Finish(p, "StoreError")
            /\ UNCHANGED store
    /\ UNCHANGED <<op, loc, activations, deactivations, created, nops,
                   concurrent, overlap, store0>>
    /\ UNCHANGED others

\* lines 280-284: new_graph_version = await on_graph_activate(...)
UpdateActivate(p, hook_ok) ==
    /\ pc[p] = "u_activate"
    /\ Log(p, Event("on_graph_activate", loc[p].version, hook_ok))
    /\ IF hook_ok
       THEN Activated(loc[p].version) /\ Goto(p, "u_set_active")
       ELSE UNCHANGED <<activations, deactivations>>
            /\ Finish(p, "ActivationError")
    /\ UNCHANGED <<store, op, loc, created, nops, concurrent, overlap, store0>>
    /\ UNCHANGED others

\* Mutant: update_graph without the pointer update of lines 286-288
UpdateSetActive_Skipped(p, store_ok) ==
    /\ pc[p] = "u_set_active"
    /\ store_ok
    /\ IF loc[p].current # None
       THEN Goto(p, "u_deactivate")
       ELSE Finish(p, "ok")
    /\ UNCHANGED <<store, trace, op, loc, activations, deactivations, created,
                   nops, concurrent, overlap, store0>>
    /\ UNCHANGED others

\* lines 286-289: await graph_db.set_graph_active_version(...)
UpdateSetActive(p, store_ok) ==
    /\ pc[p] = "u_set_active"
    /\ Log(p, Event("set_graph_active_version", loc[p].version, store_ok))
    /\ IF store_ok
       THEN /\ store' = set_active(store, loc[p].version)
            /\ IF loc[p].current # None
               THEN Goto(p, "u_deactivate")
               ELSE Finish(p, "ok")
       ELSE UNCHANGED store /\ Finish(p, "ConflictError")
    /\ UNCHANGED <<op, loc, activations, deactivations, created, nops,
                   concurrent, overlap, store0>>
    /\ UNCHANGED others

\* lines 290-296: await on_graph_deactivate(current_active_version, ...)
UpdateDeactivate(p, hook_ok) ==
    /\ pc[p] = "u_deactivate"
    /\ Log(p, Event("on_graph_deactivate", loc[p].current, hook_ok))
    /\ IF hook_ok
       THEN Deactivated(loc[p].current) /\ Finish(p, "ok")
       ELSE UNCHANGED <<activations, deactivations>>
            /\ Finish(p, "DeactivationError")
    /\ UNCHANGED <<store, op, loc, created, nops, concurrent, overlap, store0>>
    /\ UNCHANGED others

\* --------------------------------------------- set_graph_active_version
\* Mutant: the target version is not looked up before the switch
SetStart_Unchecked(p, new_active_version) ==
    /\ CanStart(p)
    /\ Begin(p, "set_active")
    /\ loc' = [loc EXCEPT ![p] = [version |-> new_active_version,
                                  current |-> None, is_template |-> FALSE]]
    /\ Goto(p, "s_load_current")
    /\ UNCHANGED <<store, activations, deactivations, created, concurrent>>
    /\ UNCHANGED others

\* lines 309-314: load the target version, 404 when it does not exist
SetStart(p, new_active_version) ==
    /\ CanStart(p)
    /\ Begin(p, "set_active")
    /\ loc' = [loc EXCEPT ![p] = [version |-> new_active_version,
                                  current |-> None, is_template |-> FALSE]]
    /\ IF get_graph(store, new_active_version) = None
       THEN Finish(p, "404")
       ELSE Goto(p, "s_load_current")
    /\ UNCHANGED <<store, activations, deactivations, created, concurrent>>
    /\ UNCHANGED others

\* Mutant: the previous version is torn down before the new one is set up
SetLoadCurrent_DeactivateFirst(p) ==
    /\ pc[p] = "s_load_current"
    /\ \E cur \in get_active_graph(store) :
         /\ loc' = [loc EXCEPT ![p].current = cur]
         /\ Goto(p, IF cur # None /\ cur # loc[p].version
                    THEN "s_deactivate" ELSE "s_activate")
    /\ UNCHANGED <<store, op, trace, activations, deactivations, created,
                   nops, concurrent, overlap, store0>>
    /\ UNCHANGED others

\* Mutant: the previous version is unmarked in the store before the switch
SetLoadCurrent_UnmarkFirst(p) ==
    /\ pc[p] = "s_load_current"
    /\ \E cur \in get_active_graph(store) :
         /\ loc' = [loc EXCEPT ![p].current = cur]
         /\ store' = IF cur # None /\ cur # loc[p].version
                     THEN [store EXCEPT ![cur].is_active = FALSE]
                     ELSE store
    /\ Goto(p, "s_activate")
    /\ UNCHANGED <<op, trace, activations, deactivations, created,
                   nops, concurrent, overlap, store0>>
    /\ UNCHANGED others

\* line 316: current_active_graph = await graph_db.get_graph(graph_id)
SetLoadCurrent(p) ==
    /\ pc[p] = "s_load_current"
    /\ \E cur \in get_active_graph(store) :
         loc' = [loc EXCEPT ![p].current = cur]
    /\ Goto(p, "s_activate")
    /\ UNCHANGED <<store, op, trace, activations, deactivations, created,
                   nops, concurrent, overlap, store0>>
    /\ UNCHANGED others

\* Mutant: a failure of on_graph_activate is swallowed and the switch goes on
SetActivate_Swallowed(p, hook_ok) ==
    /\ pc[p] = "s_activate"
    /\ Log(p, Event("on_graph_activate", loc[p].version, hook_ok))
    /\ IF hook_ok
       THEN Activated(loc[p].version) /\ Goto(p, "s_set_active")
       ELSE /\ UNCHANGED <<activations, deactivations>>
            /\ Goto(p, "s_set_active")
    /\ UNCHANGED <<store, op, loc, created, nops, concurrent, overlap, store0>>
    /\ UNCHANGED others

\* lines 321-325: await on_graph_activate(new_active_graph, ...)
SetActivate(p, hook_ok) ==
    /\ pc[p] = "s_activate"
    /\ Log(p, Event("on_graph_activate", loc[p].version, hook_ok))
    /\ IF hook_ok
       THEN Activated(loc[p].version) /\ Goto(p, "s_set_active")
       ELSE UNCHANGED <<activations, deactivations>>
            /\ Finish(p, "ActivationError")
    /\ UNCHANGED <<store, op, loc, created, nops, concurrent, overlap, store0>>
    /\ UNCHANGED others

\* Mutant: the previous version is torn down whatever the target is
NeedsDeactivate_AnyTarget(current, new_active_version) ==
    current # None

\* line 332: current_active_graph and its version differs from the target
NeedsDeactivate(current, new_active_version) ==
    current # None /\ current # new_active_version

\* lines 326-332: await graph_db.set_graph_active_version(...)
SetStore(p, store_ok) ==
    /\ pc[p] = "s_set_active"
    /\ Log(p, Event("set_graph_active_version", loc[p].version, store_ok))
    /\ IF store_ok
       THEN /\ store' = set_active(store, loc[p].version)
            /\ IF NeedsDeactivate(loc[p].current, loc[p].version)
               THEN Goto(p, "s_deactivate")
               ELSE Finish(p, "ok")
       ELSE UNCHANGED store /\ Finish(p, "ConflictError")
    /\ UNCHANGED <<op, loc, activations, deactivations, created, nops,
                   concurrent, overlap, store0>>
    /\ UNCHANGED others

\* Mutant: a failed teardown of the previous version rolls the pointer back
SetDeactivate_RolledBack(p, hook_ok) ==
    /\ pc[p] = "s_deactivate"
    /\ Log(p, Event("on_graph_deactivate", loc[p].current, hook_ok))
    /\ IF hook_ok
       THEN /\ Deactivated(loc[p].current) /\ Finish(p, "ok")
            /\ UNCHANGED store
       ELSE /\ UNCHANGED <<activations, deactivations>>
            /\ store' = set_active(store, loc[p].current)
            /\ Finish(p, "DeactivationError")
    /\ UNCHANGED <<op, loc, created, nops, concurrent, overlap, store0>>
    /\ UNCHANGED others

\* lines 333-337: await on_graph_deactivate(current_active_graph, ...)
SetDeactivate(p, hook_ok) ==
    /\ pc[p] = "s_deactivate"
    /\ Log(p, Event("on_graph_deactivate", loc[p].current, hook_ok))
    /\ IF hook_ok
       THEN Deactivated(loc[p].current) /\ Finish(p, "ok")
       ELSE UNCHANGED <<activations, deactivations>>
            /\ Finish(p, "DeactivationError")
    /\ UNCHANGED <<store, op, loc, created, nops, concurrent, overlap, store0>>
    /\ UNCHANGED others

\* ------------------------------------------------------------ behaviours
Next ==
    \/ \E p \in Procs : Return(p)
    \/ \E p \in Procs, source \in CreateSources, t \in BOOLEAN :
         CreateStart(p, source, t)
    \/ \E p \in Procs : CreateStore(p)
    \/ \E p \in Procs, ok \in BOOLEAN : CreateActivate(p, ok)
    \/ \E p \in Procs, m \in BOOLEAN, t \in BOOLEAN : UpdateStart(p, m, t)
    \/ \E p \in Procs : UpdateCreate(p)
    \/ \E p \in Procs, ok \in BOOLEAN : UpdateActivate(p, ok)
    \/ \E p \in Procs, ok \in BOOLEAN : UpdateSetActive(p, ok)
    \/ \E p \in Procs, ok \in BOOLEAN : UpdateDeactivate(p, ok)
    \/ \E p \in Procs, v \in Versions : SetStart(p, v)
    \/ \E p \in Procs : SetLoadCurrent(p)
    \/ \E p \in Procs, ok \in BOOLEAN : SetActivate(p, ok)
    \/ \E p \in Procs, ok \in BOOLEAN : SetStore(p, ok)
    \/ \E p \in Procs, ok \in BOOLEAN : SetDeactivate(p, ok)

Spec == Init /\ [][Next]_vars

\* --------------------------------------------------------- delete_graph
\* graph_db.delete_graph: removes every version of the graph_id
delete_graph(s) == [v \in Versions |-> NoGraph]

\* Mutant: the active version is torn down before the versions are removed
DeleteGraph_Deactivating(p) ==
    /\ CanStart(p)
    /\ op' = [op EXCEPT ![p] = "delete"]
    /\ nops' = nops + 1
    /\ overlap' = Running(Other(p))
    /\ store0' = IF concurrent THEN store0 ELSE store
    /\ IF ActiveVersions(store) = {}
       THEN /\ trace' = [trace EXCEPT ![p] = <<>>]
            /\ UNCHANGED <<activations, deactivations>>
       ELSE LET a == Max(ActiveVersions(store))
            IN  /\ trace' = [trace EXCEPT ![p] =
                                <<Event("on_graph_deactivate", a, TRUE)>>]
                /\ Deactivated(a)
    /\ store' = delete_graph(store)
    /\ loc' = [loc EXCEPT ![p] = NoLoc]
    /\ pc' = [pc EXCEPT ![p] = "done"]
    /\ result' = [result EXCEPT ![p] =
                     [version_counts |-> Cardinality(Present(store))]]
    /\ UNCHANGED <<created, concurrent, failed>>
    /\ UNCHANGED others

\* lines 231-234: return {"version_counts": await graph_db.delete_graph(...)}
DeleteGraph(p) ==
    /\ CanStart(p)
    /\ Begin(p, "delete")
    /\ store' = delete_graph(store)
    /\ loc' = [loc EXCEPT ![p] = NoLoc]
    /\ pc' = [pc EXCEPT ![p] = "done"]
    /\ result' = [result EXCEPT ![p] =
                     [version_counts |-> Cardinality(Present(store))]]
    /\ UNCHANGED <<activations, deactivations, created, concurrent, failed>>
    /\ UNCHANGED others

\* The graph routes with the delete route among them
NextDelete ==
    \/ Next
    \/ \E p \in Procs : DeleteGraph(p)

SpecDelete == Init /\ [][NextDelete]_vars

\* ------------------------------------------------- BaseAgent.run, exit
\* lines 309-314, 329-330: the check of _is_running and, in the same
\* synchronous stretch, its setting; or BaseException("Agent Already Running")
Run(t) ==
    /\ apc[t] = "idle"
    /\ IF ~is_running
       THEN /\ is_running' = TRUE
            /\ apc' = [apc EXCEPT ![t] = "start"]
       ELSE /\ apc' = [apc EXCEPT ![t] = "already_running"]
            /\ UNCHANGED is_running
    /\ UNCHANGED notrun

\* lines 316-319: await self.start(...) returns, or raises out of run
StartReturns(t, ok) ==
    /\ apc[t] = "start"
    /\ apc' = [apc EXCEPT ![t] = IF ok THEN "loop" ELSE "failed"]
    /\ UNCHANGED <<is_running, notrun>>

\* lines 321-327: return await self._loop.run(...); run never clears the flag
LoopReturns(t, ok) ==
    /\ apc[t] = "loop"
    /\ apc' = [apc EXCEPT ![t] = IF ok THEN "returned" ELSE "failed"]
    /\ UNCHANGED <<is_running, notrun>>

\* The caller of run has its result or exception and may call run again
Collect(t) ==
    /\ apc[t] \in {"returned", "failed", "already_running"}
    /\ apc' = [apc EXCEPT ![t] = "idle"]
    /\ UNCHANGED <<is_running, notrun>>

\* lines 343-344: exit(), callable from any task at any time
Exit ==
    /\ is_running' = (IF is_running THEN FALSE ELSE is_running)
    /\ UNCHANGED <<apc, notrun>>

\* The callers whose run is between its check of the flag and its return
InRun == {t \in Tasks : apc[t] \in {"start", "loop"}}

InitRun ==
    /\ RunInit
    /\ GraphsOff
    /\ HooksInit
    /\ QuoteInit
    /\ ChatInit

NextRun ==
    \/ \E t \in Tasks : Run(t)
    \/ \E t \in Tasks, ok \in BOOLEAN : StartReturns(t, ok)
    \/ \E t \in Tasks, ok \in BOOLEAN : LoopReturns(t, ok)
    \/ \E t \in Tasks : Collect(t)
    \/ Exit

SpecRun == InitRun /\ [][NextRun]_<<runvars, notrun>>

\* --------------------------------------- BaseAgent.add_hook, remove_hook
\* line 230: self._loop._loophooks[hook["name"]][str(hook_id)] = hook
add_hook(lh, hook, hook_id) ==
    [lh EXCEPT ![hook.name][str(hook_id)] = hook]

\* line 249: name in _loophooks and hook_id in _loophooks[name]
HasHook(lh, name, hook_id) ==
    name \in HookNames /\ lh[name][hook_id] # NoHook

\* add_hook(hook, hook_id); returns None
AddHook(hook, hook_id) ==
    /\ loophooks' = add_hook(loophooks, hook, hook_id)
    /\ loophooks0' = loophooks
    /\ hook_call' = [op |-> "add", name |-> hook.name, hook_id |-> hook_id,
                     fn |-> hook.fn, ret |-> "None"]
    /\ UNCHANGED nothooks

\* add_hook(hook): hook_id takes its default
AddHookDefault(hook) ==
    /\ loophooks' = add_hook(loophooks, hook, DefaultHookId)
    /\ loophooks0' = loophooks
    /\ hook_call' = [op |-> "add_default", name |-> hook.name,
                     hook_id |-> DefaultHookId, fn |-> hook.fn, ret |-> "None"]
    /\ UNCHANGED nothooks

\* lines 249-252: remove_hook(name, hook_id)
RemoveHook(name, hook_id) ==
    /\ loophooks0' = loophooks
    /\ IF HasHook(loophooks, name, hook_id)
       THEN /\ loophooks' = [loophooks EXCEPT ![name][hook_id] = NoHook]
            /\ hook_call' = [op |-> "remove", name |-> name,
                             hook_id |-> hook_id, fn |-> "", ret |-> "True"]
       ELSE /\ UNCHANGED loophooks
            /\ hook_call' = [op |-> "remove", name |-> name,
                             hook_id |-> hook_id, fn |-> "", ret |-> "False"]
    /\ UNCHANGED nothooks

\* A hook is registered under a name and an id when add_hook(hook, id) put
\* it there: its entry is the one under str(id)
Registered(lh, name, hook_id) ==
    name \in HookNames /\ lh[name][str(hook_id)] # NoHook

RegisteredHooks(lh, name) == {k \in Ids : lh[name][k] # NoHook}

InitHooks ==
    /\ HooksInit
    /\ GraphsOff
    /\ RunInit
    /\ QuoteInit
    /\ ChatInit

NextHooks ==
    \/ \E hook \in Hooks, hook_id \in ExplicitIds : AddHook(hook, hook_id)
    \/ \E hook \in Hooks : AddHookDefault(hook)
    \* remove_hook is given a UUID, or the string the hook is stored under
    \/ \E name \in HookNames \cup {"unknown"}, hook_id \in Ids :
         RemoveHook(name, hook_id)

SpecHooks == InitHooks /\ [][NextHooks]_<<hookvars, nothooks>>

\* ---------------------------------------- TwitterGetQuoteTweetsBlock.run
\* lines 109-122: test_output
test_output ==
    << <<"ids", <<"12345", "67890">> >>,
       <<"texts", <<"Tweet 1", "Tweet 2">> >>,
       <<"data", << [id |-> "12345", text |-> "Tweet 1"],
                    [id |-> "67890", text |-> "Tweet 2"] >> >>,
       <<"included", EmptyDict>>,
       <<"meta", [result_count |-> 2, next_token |-> "next_token_value"]>>,
       <<"next_token", "next_token_value">> >>

\* lines 123-135: test_mock["get_quote_tweets"]
test_mock ==
    Returned(<<"12345", "67890">>,
             <<"Tweet 1", "Tweet 2">>,
             << [id |-> "12345", text |-> "Tweet 1"],
                [id |-> "67890", text |-> "Tweet 2"] >>,
             EmptyDict,
             [result_count |-> 2, next_token |-> "next_token_value"],
             "next_token_value")

\* What client.get_quote_tweets(**params) may answer: it raises, or returns
\* a Response with data (None or tweets), includes and meta
Tweet1 == [id |-> 12345, text |-> "Tweet 1"]
Tweet2 == [id |-> 67890, text |-> "Tweet 2"]

Responses ==
    [fault : {"", "TweepyException", "Exception"},
     data : {<<>>, <<Tweet1>>, <<Tweet1, Tweet2>>},
     includes : {EmptyDict, [users |-> <<"user">>], [media |-> <<"media">>]},
     meta : {EmptyDict, [result_count |-> 1],
             [result_count |-> 1, next_token |-> "next_token_value"],
             [result_count |-> 2, next_token |-> "next_token_value"]}]

\* meta.get("next_token")
MetaNextToken(meta) ==
    IF "next_token" \in DOMAIN meta THEN meta.next_token ELSE NoToken

\* Mutant: a response without tweets is returned as empty lists
get_quote_tweets_EmptyLists(response) ==
    IF response.fault # ""
    THEN Raised(response.fault)
    ELSE Returned([i \in DOMAIN response.data |-> ToString(response.data[i].id)],
                  [i \in DOMAIN response.data |-> response.data[i].text],
                  [i \in DOMAIN response.data |->
                      [id |-> ToString(response.data[i].id),
                       text |-> response.data[i].text]],
                  response.includes,
                  response.meta,
                  MetaNextToken(response.meta))

\* lines 152-201: get_quote_tweets
get_quote_tweets(response) ==
    IF response.fault # ""
    THEN Raised(response.fault)                               \* lines 200-201
    ELSE IF response.data # <<>>                              \* line 192
    THEN Returned([i \in DOMAIN response.data |-> ToString(response.data[i].id)],
                  [i \in DOMAIN response.data |-> response.data[i].text],
                  [i \in DOMAIN response.data |->
                      [id |-> ToString(response.data[i].id),
                       text |-> response.data[i].text]],
                  response.includes,
                  response.meta,
                  MetaNextToken(response.meta))
    ELSE Raised("No quote tweets found")                      \* line 198

\* lines 224-235: the if-statements of run(), in their order
Fields == <<"ids", "texts", "next_token", "data", "included", "meta">>

\* Truth value of a returned field: a non-empty list, dict or string
Truthy(field, value) ==
    IF field = "next_token" THEN value # NoToken ELSE DOMAIN value # {}

\* run(input_data, credentials=...) is called and iterated
QuoteRun(test) ==
    /\ qpc = "idle"
    /\ qpc' = "lookup"
    /\ qtest' = test
    /\ UNCHANGED <<qnext, lookup, outputs, notquote>>

\* lines 211-223: the get_quote_tweets call (the test_mock in the block test)
QuoteLookup(response) ==
    /\ qpc = "lookup"
    /\ lookup' = IF qtest THEN test_mock ELSE get_quote_tweets(response)
    /\ qpc' = IF lookup'.raised # "" THEN "except" ELSE "outputs"
    /\ UNCHANGED <<qnext, qtest, outputs, notquote>>

\* lines 224-235: if <field>: yield "<field>", <field>
Emit ==
    /\ qpc = "outputs"
    /\ LET field == Fields[qnext]
       IN  outputs' = IF Truthy(field, lookup[field])
                      THEN Append(outputs, <<field, lookup[field]>>)
                      ELSE outputs
    /\ IF qnext < Len(Fields)
       THEN qnext' = qnext + 1 /\ UNCHANGED qpc
       ELSE qpc' = "end" /\ UNCHANGED qnext
    /\ UNCHANGED <<qtest, lookup, notquote>>

\* lines 237-238: yield "error", handle_tweepy_exception(e)
EmitError ==
    /\ qpc = "except"
    /\ outputs' = Append(outputs, <<"error", lookup.raised>>)
    /\ qpc' = "end"
    /\ UNCHANGED <<qnext, qtest, lookup, notquote>>

OutputNames(out) == [i \in DOMAIN out |-> out[i][1]]

InitQuote ==
    /\ QuoteInit
    /\ GraphsOff
    /\ RunInit
    /\ HooksInit
    /\ ChatInit

NextQuote ==
    \/ \E test \in BOOLEAN : QuoteRun(test)
    \/ \E response \in Responses : QuoteLookup(response)
    \/ Emit
    \/ EmitError

SpecQuote == InitQuote /\ [][NextQuote]_<<quotevars, notquote>>

\* -------------------------------------------------- ChatSequence.insert
\* list.insert(i, x): x goes before position i (0-based); a negative i
\* counts from the end, and i is clamped to 0..len
list_insert(l, i, x) ==
    LET j == IF i < 0 THEN i + Len(l) ELSE i
        at == IF j < 0 THEN 0 ELSE IF j > Len(l) THEN Len(l) ELSE j
    IN  SubSeq(l, 1, at) \o <<x>> \o SubSeq(l, at + 1, Len(l))

\* reversed(messages)
reversed(s) == [i \in 1..Len(s) |-> s[Len(s) + 1 - i]]

\* lines 105-106: for message in <todo>: self.messages.insert(index, message)
RECURSIVE InsertEach(_, _, _)
InsertEach(l, index, todo) ==
    IF todo = <<>> THEN l
    ELSE InsertEach(list_insert(l, index, Head(todo)), index, Tail(todo))

\* Mutant: the messages are inserted in the order given
insert_Forward(l, index, msgs) == InsertEach(l, index, msgs)

\* lines 104-106: ChatSequence.insert(index, *messages)
insert(l, index, msgs) == InsertEach(l, index, reversed(msgs))

\* The argument tuples of an insert call
InsertArgs == UNION {[1..k -> Messages] : k \in 0..MaxInsert}

\* lines 98-99: append(message)
ChatAppend(message) ==
    /\ Len(messages) < MaxMessages
    /\ messages' = Append(messages, message)
    /\ messages0' = messages
    /\ chat_call' = [op |-> "append", index |-> Len(messages),
                     messages |-> <<message>>]
    /\ UNCHANGED notchat

\* lines 104-106: insert(index, *messages)
ChatInsert(index, msgs) ==
    /\ Len(messages) + Len(msgs) <= MaxMessages
    /\ messages' = insert(messages, index, msgs)
    /\ messages0' = messages
    /\ chat_call' = [op |-> "insert", index |-> index, messages |-> msgs]
    /\ UNCHANGED notchat

InitChat ==
    /\ ChatInit
    /\ GraphsOff
    /\ RunInit
    /\ HooksInit
    /\ QuoteInit

NextChat ==
    \/ \E message \in Messages : ChatAppend(message)
    \/ \E index \in (0 - MaxMessages - 1)..(MaxMessages + 1),
          msgs \in InsertArgs : ChatInsert(index, msgs)

SpecChat == InitChat /\ [][NextChat]_<<chatvars, notchat>>

\* ------------------------------------------------------------- helpers
Quiescent == \A p \in Procs : ~Running(p)

Calls(tr, call) == {i \in DOMAIN tr : tr[i].call = call}

Switching(p) == op[p] \in {"update", "set_active"}

\* ---------------------------------------------------------------- claims

\* C1: after any sequence of successfully completed create, update and
\* set_active_version requests, observed while no request is being handled,
\* at most one version of the graph_id has is_active = true.
C1_AtMostOneActive ==
    (Quiescent /\ ~failed) => Cardinality(ActiveVersions(store)) <= 1

C1_Witness ==
    /\ Quiescent /\ ~failed /\ nops >= 2
    /\ Present(store) = {1, 2, 3}
    /\ ActiveVersions(store) = {1}

\* C2: in a switch from the active version A to another version B, every
\* deactivation hook call for A comes after a completed activation hook call
\* for B in the same request.
C2_ActivateBeforeDeactivate ==
    \A p \in Procs :
        Switching(p) =>
            \A j \in Calls(trace[p], "on_graph_deactivate") :
                /\ trace[p][j].version = loc[p].current
                /\ \E i \in Calls(trace[p], "on_graph_activate") :
                     /\ i < j
                     /\ trace[p][i].ok
                     /\ trace[p][i].version = loc[p].version

C2_Witness ==
    \E p \in Procs :
        /\ pc[p] = "done" /\ result[p] = "ok" /\ Switching(p)
        /\ loc[p].current \notin {None, loc[p].version}
        /\ Calls(trace[p], "on_graph_deactivate") # {}

\* C3: when the activation hook of set_active_version(B) fails while A is
\* active, the request ends with that error having made no store write and no
\* deactivation hook call; with no other request in flight the store is as it
\* was when the request was issued and A is still active.
C3_ActivationFailureLeavesA ==
    \A p \in Procs :
        (/\ op[p] = "set_active"
         /\ \E i \in Calls(trace[p], "on_graph_activate") : ~trace[p][i].ok)
        => /\ pc[p] = "done"
           /\ result[p] = "ActivationError"
           /\ Len(trace[p]) = 1
           /\ ~concurrent =>
                /\ store = store0
                /\ loc[p].current # None
                     => loc[p].current \in ActiveVersions(store)

C3_Witness ==
    \E p \in Procs :
        /\ ~concurrent /\ op[p] = "set_active" /\ pc[p] = "done"
        /\ result[p] = "ActivationError"
        /\ loc[p].current \notin {None, loc[p].version}
        /\ ActiveVersions(store0) = {loc[p].current}
        /\ ActiveVersions(store) = {loc[p].current}

\* C4 (as claimed): when the activation hook of an update on a non-template
\* graph with active version A fails, the new version is not marked active
\* in the store and A is the only active version.
C4_FailedUpdateNotActive ==
    \A p \in Procs :
        (/\ ~concurrent /\ op[p] = "update" /\ pc[p] = "done"
         /\ result[p] = "ActivationError"
         /\ loc[p].current # None
         /\ ActiveVersions(store0) = {loc[p].current})
        => /\ ~store[loc[p].version].is_active
           /\ ActiveVersions(store) = {loc[p].current}

\* C5 (as claimed): set_active_version(v) with v already the active version
\* (and no call of the request raising) calls no hook, returns successfully
\* and leaves v active.
C5_IdempotentNoHooks ==
    \A p \in Procs :
        (/\ ~concurrent /\ op[p] = "set_active" /\ pc[p] = "done"
         /\ ActiveVersions(store0) = {loc[p].version}
         /\ loc[p].current = loc[p].version
         /\ \A i \in DOMAIN trace[p] : trace[p][i].ok)
        => /\ Calls(trace[p], "on_graph_activate") = {}
           /\ Calls(trace[p], "on_graph_deactivate") = {}
           /\ result[p] = "ok"
           /\ ActiveVersions(store) = {loc[p].version}

\* Both requests called the store after loading the active version, and
\* neither had seen the other's pointer update when it loaded it
Raced(p, q) ==
    /\ p # q /\ overlap
    /\ loc[p].current # None /\ loc[q].current # None
    /\ op[p] = "set_active" /\ op[q] = "set_active"
    /\ pc[p] = "done" /\ pc[q] = "done"
    /\ loc[p].version # loc[q].version
    /\ loc[p].current # loc[q].version
    /\ loc[q].current # loc[p].version
    /\ Calls(trace[p], "set_graph_active_version") # {}
    /\ Calls(trace[q], "set_graph_active_version") # {}

\* C6 (as claimed): of two set_active_version requests for different
\* versions that race on the pointer only one is the winner: they do not
\* both succeed.
C6_ExactlyOneWinner ==
    \A p, q \in Procs :
        Raced(p, q) => ~(result[p] = "ok" /\ result[q] = "ok")

\* C7 (as claimed): when the store's pointer update to B fails after B's
\* activation hook succeeded, the deactivation hook has been called for B
\* exactly once when the error reaches the caller.
C7_ConflictUndoesActivation ==
    \A p \in Procs :
        (/\ Switching(p) /\ pc[p] = "done" /\ result[p] = "ConflictError"
         /\ \E i \in Calls(trace[p], "on_graph_activate") : trace[p][i].ok)
        => Cardinality({i \in Calls(trace[p], "on_graph_deactivate") :
                           trace[p][i].version = loc[p].version}) = 1

\* C8 (as claimed): a version the store marks active has had its activation
\* hook completed.
C8_ActiveOnlyAfterActivation ==
    \A v \in Versions :
        (store[v].present /\ store[v].is_active) => activations[v] > 0

\* C9: while an update or set_active_version request that found an active
\* version is being handled, the store has at least one active version.
C9_NoZeroActiveWindow ==
    \A p \in Procs :
        (Switching(p) /\ Running(p) /\ loc[p].current # None)
        => ActiveVersions(store) # {}

C9_Witness ==
    \E p \in Procs :
        /\ pc[p] \in {"s_deactivate", "u_deactivate"}
        /\ loc[p].current \notin {None, loc[p].version}
        /\ ActiveVersions(store) = {loc[p].version}

\* C10: when the deactivation hook for the previous version fails after the
\* pointer update, the request makes no further store write and no further
\* hook call; with no other request in flight the new version is the active
\* one.
C10_DeactivationFailureKeepsNew ==
    \A p \in Procs :
        (/\ Switching(p)
         /\ \E j \in Calls(trace[p], "on_graph_deactivate") : ~trace[p][j].ok)
        => /\ pc[p] = "done"
           /\ ~trace[p][Len(trace[p])].ok
           /\ trace[p][Len(trace[p])].call = "on_graph_deactivate"
           /\ Cardinality(Calls(trace[p], "set_graph_active_version")) = 1
           /\ \A i \in DOMAIN trace[p] :
                trace[p][i].version = loc[p].version
                    => trace[p][i].call # "on_graph_deactivate"
           /\ ~concurrent => ActiveVersions(store) = {loc[p].version}

C10_Witness ==
    \E p \in Procs :
        /\ ~concurrent /\ pc[p] = "done" /\ Switching(p)
        /\ result[p] = "DeactivationError"
        /\ store[loc[p].version].is_active
        /\ ~store[loc[p].current].is_active

\* C11 (as claimed): a failure of the deactivation hook for the previously
\* active version is not propagated: the update or set_active_version request
\* still completes successfully.
C11_DeactivationFailureNotPropagated ==
    \A p \in Procs :
        (/\ ~concurrent /\ Switching(p) /\ pc[p] = "done"
         /\ ActiveVersions(store0) = {loc[p].current}
         /\ \E j \in Calls(trace[p], "on_graph_deactivate") : ~trace[p][j].ok)
        => result[p] = "ok"

\* C12: an update of a graph with existing versions gives the new version
\* the number max(existing version numbers) + 1, whichever version is active,
\* and a successful update persists it under that number.
C12_NextVersionIsMaxPlusOne ==
    \A p \in Procs :
        (~concurrent /\ op[p] = "update" /\ Present(store0) # {}
         /\ loc[p].version # None)
        => /\ \A v \in Present(store0) : loc[p].version > v
           /\ loc[p].version - 1 \in Present(store0)
           /\ (pc[p] = "done" /\ result[p] = "ok")
                => loc[p].version \in Present(store)

C12_Witness ==
    \E p \in Procs :
        /\ ~concurrent /\ op[p] = "update" /\ pc[p] = "done"
        /\ result[p] = "ok"
        /\ Present(store0) = {1, 2} /\ ActiveVersions(store0) = {1}
        /\ loc[p].version = 3

\* The request's create_graph call persisted its version
Persisted(p) ==
    \E i \in Calls(trace[p], "create_graph") :
        trace[p][i].ok /\ trace[p][i].version = loc[p].version

\* C13: of two concurrent updates of the graph_id, no two persist a version
\* under the same number: the one whose number is taken ends with the
\* store's error and has created nothing.
C13_VersionUniqueUnderConcurrency ==
    \A p, q \in Procs :
        (p # q /\ op[p] = "update" /\ op[q] = "update"
         /\ loc[p].version # None /\ loc[p].version = loc[q].version)
        => /\ ~(Persisted(p) /\ Persisted(q))
           /\ (Persisted(p) /\ Calls(trace[q], "create_graph") # {})
                => (pc[q] = "done" /\ result[q] = "StoreError"
                    /\ Len(trace[q]) = 1)

C13_Witness ==
    \E p, q \in Procs :
        /\ p # q /\ op[p] = "update" /\ op[q] = "update"
        /\ loc[p].version = loc[q].version
        /\ Persisted(p)
        /\ pc[q] = "done" /\ result[q] = "StoreError"

\* C14: an update whose is_template differs from that of the latest existing
\* version ends with the 400 response having made no store write and no hook
\* call: the versions and the active version are as they were.
C14_TemplateFlipRejected ==
    \A p \in Procs :
        (/\ ~concurrent /\ op[p] = "update" /\ loc[p].version # None
         /\ Present(store0) # {}
         /\ store0[Max(Present(store0))].is_template # loc[p].is_template)
        => /\ pc[p] = "done"
           /\ result[p] = "400"
           /\ trace[p] = <<>>
           /\ store = store0

C14_Witness ==
    \E p \in Procs :
        /\ ~concurrent /\ op[p] = "update" /\ pc[p] = "done"
        /\ result[p] = "400"
        /\ loc[p].is_template
        /\ Present(store0) = {1, 2} /\ ActiveVersions(store0) = {2}
        /\ ~store0[2].is_template
        /\ store = store0

\* C15: an update of a graph_id that has no versions (and passes the sanity
\* check on the id in the body) ends with the 404 response having created no
\* version and called no hook.
C15_UpdateOfMissingGraphIs404 ==
    \A p \in Procs :
        (/\ ~concurrent /\ op[p] = "update" /\ Present(store0) = {}
         /\ ~(pc[p] = "done" /\ result[p] = "400"))
        => /\ pc[p] = "done"
           /\ result[p] = "404"
           /\ trace[p] = <<>>
           /\ Present(store) = {}

C15_Witness ==
    \E p \in Procs :
        /\ ~concurrent /\ op[p] = "update" /\ pc[p] = "done"
        /\ result[p] = "404"
        /\ Present(store0) = {} /\ Present(store) = {}

\* C16 (as claimed): creating a template (is_template = true, hence
\* is_active = false), with no call of the request raising, calls no
\* activation hook.
C16_TemplateCreateNoHook ==
    \A p \in Procs :
        (/\ op[p] = "create" /\ loc[p].version # None /\ loc[p].is_template
         /\ \A i \in DOMAIN trace[p] : trace[p][i].ok)
        => Calls(trace[p], "on_graph_activate") = {}

\* C17 (as claimed): create with neither a graph nor a template_id is answered
\* 400, create with a template_id that does not resolve is answered 404, and
\* in both cases nothing is persisted and no hook is called.
C17_CreateErrors ==
    [][\A p \in Procs, t \in BOOLEAN :
         /\ CreateStart(p, "neither", t)
              => (result'[p] = "400" /\ pc'[p] = "done"
                  /\ store' = store /\ trace'[p] = <<>>)
         /\ CreateStart(p, "missing_template", t)
              => (result'[p] = "404" /\ pc'[p] = "done"
                  /\ store' = store /\ trace'[p] = <<>>)]_vars

\* C18: set_active_version with a target version the graph does not have
\* ends with the 404 response having called no hook and made no store write:
\* the active version is as it was.
C18_MissingTargetIs404 ==
    \A p \in Procs :
        (/\ ~concurrent /\ op[p] = "set_active"
         /\ loc[p].version \notin Present(store0))
        => /\ pc[p] = "done"
           /\ result[p] = "404"
           /\ trace[p] = <<>>
           /\ store = store0

C18_Witness ==
    \E p \in Procs :
        /\ ~concurrent /\ op[p] = "set_active" /\ pc[p] = "done"
        /\ result[p] = "404"
        /\ Present(store0) = {1, 2} /\ loc[p].version = 3
        /\ ActiveVersions(store) = {2}

\* C19: delete removes every version of the graph_id and returns the number
\* of versions removed, and it calls no hook, also when a removed version is
\* active.
C19_DeleteRemovesAllNoHook ==
    \A p \in Procs :
        op[p] = "delete"
        => /\ pc[p] = "done"
           /\ trace[p] = <<>>
           /\ ~concurrent =>
                /\ Present(store) = {}
                /\ result[p].version_counts = Cardinality(Present(store0))

C19_Witness ==
    \E p \in Procs :
        /\ ~concurrent /\ op[p] = "delete" /\ pc[p] = "done"
        /\ Present(store0) = {1, 2, 3} /\ ActiveVersions(store0) = {3}
        /\ result[p].version_counts = 3
        /\ Present(store) = {}

\* C20: a successful update adds exactly one version, under a number no
\* existing version has, and leaves every existing version in the store with
\* its number and its is_template; only is_active of existing versions changes.
C20_UpdateAddsOneVersion ==
    \A p \in Procs :
        (~concurrent /\ op[p] = "update" /\ pc[p] = "done"
         /\ result[p] = "ok")
        => /\ loc[p].version \notin Present(store0)
           /\ Present(store) = Present(store0) \cup {loc[p].version}
           /\ \A v \in Present(store0) :
                store[v].is_template = store0[v].is_template
           /\ Cardinality(Calls(trace[p], "create_graph")) = 1

C20_Witness ==
    \E p \in Procs :
        /\ ~concurrent /\ op[p] = "update" /\ pc[p] = "done"
        /\ result[p] = "ok"
        /\ Present(store0) = {1, 2} /\ Present(store) = {1, 2, 3}
        /\ ActiveVersions(store0) = {2} /\ ActiveVersions(store) = {3}

\* C21: BaseAgent.run called while the agent's loop is already running
\* (_is_running = true) raises "Agent Already Running" without starting the
\* loop again; hence at most one run of the loop is in progress per agent.
C21_AtMostOneRunInProgress ==
    Cardinality(InRun) <= 1

\* C22: a hook registered with add_hook(hook, hook_id) can be removed with
\* remove_hook(hook["name"], hook_id) using the same hook_id: the call returns
\* True and the hook is no longer registered; remove_hook returns False
\* exactly when no hook with that name and id is registered.
C22_RemoveRegisteredHook ==
    hook_call.op = "remove" =>
        /\ (hook_call.ret = "False") <=>
               ~Registered(loophooks0, hook_call.name, hook_call.hook_id)
        /\ ~Registered(loophooks, hook_call.name, hook_call.hook_id)

\* C23: each add_hook call made without an explicit hook_id registers the
\* hook under a new unique id, so two hooks with the same name added this way
\* are both registered afterwards (the second does not overwrite the first).
C23_DefaultIdIsFresh ==
    (/\ hook_call.op = "add_default"
     /\ \A k \in RegisteredHooks(loophooks0, hook_call.name) :
            loophooks0[hook_call.name][k].fn # hook_call.fn) =>
        /\ ~Registered(loophooks0, hook_call.name, hook_call.hook_id)
        /\ \A k \in RegisteredHooks(loophooks0, hook_call.name) :
               loophooks[hook_call.name][k] = loophooks0[hook_call.name][k]
        /\ Cardinality(RegisteredHooks(loophooks, hook_call.name))
               = Cardinality(RegisteredHooks(loophooks0, hook_call.name)) + 1

\* C24: for the block's test input with the mocked get_quote_tweets result,
\* TwitterGetQuoteTweetsBlock.run emits exactly the declared test_output
\* sequence in the declared order: ids, texts, data, included (empty dict),
\* meta, next_token.
C24_TestOutputEmitted ==
    (qtest /\ qpc = "end") =>
        /\ OutputNames(outputs) = OutputNames(test_output)
        /\ \A i \in DOMAIN outputs : outputs[i][2] = test_output[i][2]

\* C30: TwitterGetQuoteTweetsBlock.run emits either exactly one "error"
\* output and nothing else (when the lookup raises, including when the
\* response has no tweets), or one or more data outputs and no "error"
\* output; it never emits both.
C30_ErrorOrData ==
    LET names == OutputNames(outputs)
        errors == {i \in DOMAIN names : names[i] = "error"}
    IN  /\ errors # {} => names = <<"error">>
        /\ qpc = "end" =>
              IF lookup.raised # ""
              THEN names = <<"error">>
              ELSE Len(names) >= 1 /\ errors = {}

C30_Witness ==
    /\ qpc = "end" /\ ~qtest
    /\ lookup.raised = "No quote tweets found"
    /\ OutputNames(outputs) = <<"error">>

\* C25: in update and in set_active_version the store's active-version
\* pointer is set to the new version only after the new version's activation
\* hook has completed, and the deactivation hook for the previous version is
\* invoked only after that pointer update has completed.
C25_ActivatePointerDeactivate ==
    \A p \in Procs :
        Switching(p) =>
            /\ \A j \in Calls(trace[p], "set_graph_active_version") :
                 /\ trace[p][j].version = loc[p].version
                 /\ \E i \in Calls(trace[p], "on_graph_activate") :
                      i < j /\ trace[p][i].ok
                            /\ trace[p][i].version = loc[p].version
            /\ \A k \in Calls(trace[p], "on_graph_deactivate") :
                 \E j \in Calls(trace[p], "set_graph_active_version") :
                      j < k /\ trace[p][j].ok
                            /\ trace[p][j].version = loc[p].version

C25_Witness ==
    \E p \in Procs :
        /\ op[p] = "update" /\ pc[p] = "done" /\ result[p] = "ok"
        /\ Len(trace[p]) = 4
        /\ trace[p][3].call = "set_graph_active_version"
        /\ trace[p][4].call = "on_graph_deactivate"
        /\ trace[p][4].version = 2 /\ loc[p].version = 3

\* C26: set_active_version invokes the deactivation hook if and only if a
\* currently active version exists and its version number differs from the
\* target version; when invoked, it is invoked exactly once and on that
\* previously active version. (The hook's turn comes once the pointer update
\* has succeeded; "currently active" is what the request read at line 316.)
C26_DeactivateIffOtherActive ==
    \A p \in Procs :
        op[p] = "set_active" =>
            LET deacts == Calls(trace[p], "on_graph_deactivate")
                moved == \E j \in Calls(trace[p], "set_graph_active_version") :
                             trace[p][j].ok
            IN  /\ Cardinality(deacts) <= 1
                /\ \A k \in deacts :
                     /\ trace[p][k].version = loc[p].current
                     /\ loc[p].current # None
                     /\ loc[p].current # loc[p].version
                /\ (pc[p] = "done" /\ moved) =>
                     (deacts # {} <=>
                         (loc[p].current # None
                            /\ loc[p].current # loc[p].version))
                /\ (~concurrent /\ trace[p] # <<>>) =>
                     loc[p].current \in get_active_graph(store0)

C26_Witness ==
    \E p \in Procs :
        /\ op[p] = "set_active" /\ pc[p] = "done" /\ result[p] = "ok"
        /\ ~concurrent /\ ActiveVersions(store0) = {3}
        /\ loc[p].version = 3 /\ loc[p].current = 3
        /\ Calls(trace[p], "on_graph_deactivate") = {}

\* C27: update on a template graph (is_template = true on the latest version
\* and on the new definition) persists the new version with is_active =
\* false, invokes no activation or deactivation hook, and does not change
\* the active-version pointer.
C27_TemplateUpdateInert ==
    \A p \in Procs :
        (op[p] = "update" /\ loc[p].is_template /\ loc[p].version # None) =>
            /\ \A i \in DOMAIN trace[p] : trace[p][i].call = "create_graph"
            /\ pc[p] \notin {"u_activate", "u_set_active", "u_deactivate"}
            /\ (~concurrent /\ pc[p] = "done" /\ result[p] = "ok") =>
                 /\ store[loc[p].version] = Graph(FALSE, TRUE)
                 /\ ActiveVersions(store) = ActiveVersions(store0)
                 /\ \A v \in Present(store0) : store[v] = store0[v]

C27_Witness ==
    \E p \in Procs :
        /\ op[p] = "update" /\ pc[p] = "done" /\ result[p] = "ok"
        /\ ~concurrent /\ loc[p].is_template
        /\ Present(store0) = {1, 2} /\ store0[2].is_template
        /\ store[3] = Graph(FALSE, TRUE)
        /\ Len(trace[p]) = 1

\* C28: after any set of concurrent update and set_active_version calls on
\* one graph_id has run to completion without hook failures, the versions
\* whose activation hook has run without a later deactivation hook are
\* exactly the version the store marks active: no version is left with
\* activation side effects registered while inactive, and no version is
\* deactivated more times than it was activated.
C28_HooksMatchActiveVersion ==
    (/\ concurrent /\ Quiescent /\ ~failed
     /\ Present(store0) # {}
     /\ \A v \in Present(store0) : ~store0[v].is_template) =>
        \A v \in Versions :
            /\ deactivations[v] <= activations[v]
            /\ (activations[v] > deactivations[v]) <=>
                   v \in ActiveVersions(store)

\* C29: ChatSequence.insert(index, m1, ..., mk) with 0 <= index <=
\* len(messages) places m1..mk at positions index..index+k-1 in the given
\* order and keeps all previously present messages in their original
\* relative order.
C29_InsertPlacesInOrder ==
    (/\ chat_call.op = "insert"
     /\ 0 <= chat_call.index /\ chat_call.index <= Len(messages0)) =>
        LET index == chat_call.index
            k == Len(chat_call.messages)
        IN  /\ Len(messages) = Len(messages0) + k
            /\ \A j \in 1..k : messages[index + j] = chat_call.messages[j]
            /\ SubSeq(messages, 1, index)
                 \o SubSeq(messages, index + k + 1, Len(messages))
               = messages0

C29_Witness ==
    /\ chat_call.op = "insert"
    /\ chat_call.index = 1 /\ Len(messages0) = 2
    /\ chat_call.messages = <<"m1", "m2">>
    /\ messages0 = <<"m3", "m1">>
    /\ messages = <<"m3", "m1", "m2", "m1">>

TypeOK ==
    /\ \A v \in Versions : store[v] \in [present : BOOLEAN, is_active : BOOLEAN,
                                         is_template : BOOLEAN]
    /\ \A p \in Procs : Len(trace[p]) <= 4
    /\ nops \in 0..MaxOps
====
